---- MODULE Spec2Model ----
(***************************************************************************)
(* Model of lib/vector/Vlib/open_ogr.c: opening an OGR layer as a vector   *)
(* map (level 1), attaching the feature index file (level 2) and creating  *)
(* a new OGR layer.                                                        *)
(*                                                                         *)
(* The OGR provider, the file system and the overwrite flag are the        *)
(* environment: their answers are inputs of the actions.  The portable     *)
(* codec (the dig__fread_port family), the fidx writer and the close of a  *)
(* session are not part of open_ogr.c; they follow sections 3, 4.1, 4.3    *)
(* and 6 of the specification.                                             *)
(***************************************************************************)
EXTENDS Integers, Sequences, FiniteSets, TLC

(* ------------------------------ bounds -------------------------------- *)

\* longest offset table a generated fidx file holds
MaxOffsets == 2
\* most layers a data source holds initially
MaxLayers == 3
\* most library calls made in one run, or between two closes
MaxCalls == 2
\* most ints the process finds memory for in one allocation
MaxAlloc == 64

(* --------------------------- C-level values --------------------------- *)

\* a pointer is <<>> (NULL) or <<x>> (pointing at x)
NULL == <<>>

Ptr(x) == <<x>>

Deref(p) == p[1]

\* stands for the content of memory that was allocated but never written;
\* no generated file holds this value
Indeterminate == -2147483647 - 1

\* strings are sequences of character codes
StrA == <<65>>

StrAB == <<65, 66>>

Stra == <<97>>

StrEmpty == <<>>

RECURSIVE strcmp(_, _)
\* strcmp(3): sign of the first differing character, end of string first
strcmp(a, b) ==
    IF a = <<>> /\ b = <<>> THEN 0
    ELSE IF a = <<>> THEN -1
    ELSE IF b = <<>> THEN 1
    ELSE IF Head(a) < Head(b) THEN -1
    ELSE IF Head(a) > Head(b) THEN 1
    ELSE strcmp(Tail(a), Tail(b))

Min(a, b) == IF a <= b THEN a ELSE b

(* ------------------------- portable codec ----------------------------- *)
\* Specification 4.1 and 6: fixed-width values, decoded with the byte-order
\* tag in effect; a read returns the number of values it could read.

\* width in bytes of a portable int and of a portable long in a fidx file
PORT_INT == 4

PORT_LONG == 4

ENDIAN_LITTLE == 0

ENDIAN_BIG == 1

ByteOrders == {ENDIAN_LITTLE, ENDIAN_BIG}

Reverse(s) == [i \in 1..Len(s) |-> s[Len(s) + 1 - i]]

\* the four bytes of a 32-bit two's complement integer, low byte first
LittleBytes(v) ==
    <<v % 256, (v \div 256) % 256, (v \div 65536) % 256,
      (v \div 16777216) % 256>>

EncodeInt(v, order) ==
    IF order = ENDIAN_BIG THEN Reverse(LittleBytes(v)) ELSE LittleBytes(v)

DecodeInt(b, order) ==
    LET l == IF order = ENDIAN_BIG THEN Reverse(b) ELSE b
        top == IF l[4] >= 128 THEN l[4] - 256 ELSE l[4]
    IN  l[1] + 256 * l[2] + 65536 * l[3] + 16777216 * top

\* complete values of the given width between the position and the end
Available(file, pos, width) ==
    IF pos >= Len(file) THEN 0 ELSE (Len(file) - pos) \div width

\* a count passed as size_t: a negative int becomes a count larger than
\* any file
AsSizeT(cnt) == IF cnt < 0 THEN 2147483647 ELSE cnt

\* bytes read by dig__fread_port_C: [n |-> number read, vals |-> the bytes]
dig__fread_port_C(file, pos, cnt) ==
    LET n == Min(AsSizeT(cnt), Available(file, pos, 1))
    IN  [n |-> n, vals |-> [i \in 1..n |-> file[pos + i]]]

\* ints read by dig__fread_port_I under the byte order of the current port
dig__fread_port_I(file, pos, cnt, order) ==
    LET n == Min(AsSizeT(cnt), Available(file, pos, PORT_INT))
    IN  [n |-> n,
         vals |-> [i \in 1..n |->
                    DecodeInt(SubSeq(file, pos + PORT_INT * (i - 1) + 1,
                                     pos + PORT_INT * i), order)]]

\* longs read by dig__fread_port_L under the byte order of the current port
dig__fread_port_L(file, pos, cnt, order) ==
    LET n == Min(AsSizeT(cnt), Available(file, pos, PORT_LONG))
    IN  [n |-> n,
         vals |-> [i \in 1..n |->
                    DecodeInt(SubSeq(file, pos + PORT_LONG * (i - 1) + 1,
                                     pos + PORT_LONG * i), order)]]

(* ----------------------------- fidx files ----------------------------- *)

\* size of the fixed header: versions, floors, byte-order tag
HeaderBytes == 5

Zeros(n) == [i \in 1..n |-> 0]

RECURSIVE EncodeInts(_, _)
EncodeInts(vals, order) ==
    IF vals = <<>> THEN <<>>
    ELSE EncodeInt(Head(vals), order) \o EncodeInts(Tail(vals), order)

FidxHeader(w, f, order) == <<w[1], w[2], f[1], f[2], order>>

\* Layout of specification 6: header, header_length, at header_length the
\* payload_offset, at payload_offset the count and the offsets.
FidxDocumented(w, f, order, hlen, poff, count, offs) ==
    FidxHeader(w, f, order) \o EncodeInt(hlen, order)
        \o Zeros(hlen - HeaderBytes - PORT_LONG)
        \o EncodeInt(poff, order) \o Zeros(poff - hlen - PORT_INT)
        \o EncodeInt(count, order) \o EncodeInts(offs, order)

\* Layout the reader walks: header, header size, at that position the
\* number of records and the offsets.
FidxPlain(w, f, order, hlen, count, offs) ==
    FidxHeader(w, f, order) \o EncodeInt(hlen, order)
        \o Zeros(hlen - HeaderBytes - PORT_LONG)
        \o EncodeInt(count, order) \o EncodeInts(offs, order)

(* ------------------------------- state -------------------------------- *)

Maps == {"m1", "m2"}

VARIABLES
    Map,        \* Map[m]: the struct Map_info of session m (its fInfo.ogr)
    fidx,       \* fidx[m]: the fidx file of map m on disk, NULL when absent
    written,    \* written[m]: how fidx[m] was produced (the writer's inputs)
    layers,     \* the layers of the data source, in provider order
    nextLayer,  \* identity of the next layer the provider creates
    dsCount,    \* data-source handles handed out so far (handles 1..dsCount)
    dsReleased, \* data-source handles destroyed by OGR_DS_Destroy
    overwrite,  \* what G_get_overwrite() answers
    Cur_Head,   \* the port installed by dig_set_cur_port (its byte order)
    openFiles,  \* FILE handles opened by G_fopen_old and not yet fclose()d
    registered, \* whether OGRRegisterAll() has run
    proc,       \* "running", or "exited" once G_fatal_error was called
    sessions,   \* the sessions that make calls
    level,      \* level[m]: 0 closed, 1 after a level-1 open, 2 indexed
    ncalls,     \* calls made so far (since the last close)
    last,       \* record of the most recent call
    pending,    \* pending[m]: frame of a level-2 open of session m that
                \* has started and not returned, NULL when there is none
    closed      \* what each session closed so far had loaded

vars == <<Map, fidx, written, layers, nextLayer, dsCount, dsReleased,
          overwrite, Cur_Head, openFiles, registered, proc, sessions,
          level, ncalls, last, pending, closed>>

(* ------------------- V2_open_old_ogr, step by step -------------------- *)
\* A call is a record st: fr (the frame: locals and position in the code),
\* map (the Map_info it works on), cur (Cur_Head), nopen (openFiles).
\* Each step returns the set of states the code can be in after it.

\* values a never-written byte of the stack buffer buf[5] may hold
GarbageBytes == {0, 1}

V2_frame(disk) ==
    [pc |-> "fopen", disk |-> disk, file |-> NULL, pos |-> 0,
     buf |-> <<>>, nread |-> 0, verdict |-> "none", port |-> NULL,
     length |-> 0, ret |-> 0, fatal |-> FALSE, log |-> <<>>]

\* return (-1);
V2_fail(st) ==
    [st EXCEPT !.fr.pc = "return", !.fr.ret = -1]

\* a missing file treated as fatal
V2_fopen_fatal(st) ==
    IF st.fr.disk = NULL
    THEN {[st EXCEPT !.fr.pc = "fatal", !.fr.fatal = TRUE, !.fr.ret = -1,
                     !.fr.log = Append(@, "G_fatal_error")]}
    ELSE {[st EXCEPT !.fr.file = st.fr.disk, !.fr.pos = 0,
                     !.nopen = @ + 1, !.fr.pc = "header",
                     !.fr.log = Append(@, "G_fopen_old")]}

\* lines 138-145: G_fopen_old; a missing file is warned about
V2_fopen(st) ==
    IF st.fr.disk = NULL
    THEN {V2_fail([st EXCEPT !.fr.log = Append(@, "G_warning")])}
    ELSE {[st EXCEPT !.fr.file = st.fr.disk, !.fr.pos = 0,
                     !.nopen = @ + 1, !.fr.pc = "header",
                     !.fr.log = Append(@, "G_fopen_old")]}

\* line 157 and line 158: the test applied to (Version_Major, Version_Minor)
\* and to (Back_Major, Back_Minor)
NewerThanSupported(major, minor) == major > 5 \/ minor > 0

\* lines 156-167: "reject", "warn" or "accept"
CheckVersion(buf) ==
    IF NewerThanSupported(buf[1], buf[2])
    THEN IF NewerThanSupported(buf[3], buf[4]) THEN "reject" ELSE "warn"
    ELSE "accept"

\* the rejection downgraded to a warning: parsing goes on
V2_reject_warns(st) ==
    [st EXCEPT !.fr.pc = "port", !.fr.log = Append(@, "G_warning")]

\* lines 159-162: G_fatal_error ends the process
V2_reject(st) ==
    [st EXCEPT !.fr.pc = "fatal", !.fr.fatal = TRUE, !.fr.ret = -1,
               !.fr.log = Append(@, "G_fatal_error")]

\* lines 147-167: the 5-byte header and the version check
V2_header(st) ==
    LET r == dig__fread_port_C(Deref(st.fr.file), st.fr.pos, HeaderBytes)
        s1 == [st EXCEPT !.fr.log = Append(@, "fread_C"),
                         !.fr.pos = @ + r.n, !.fr.nread = r.n]
    IN  IF 0 >= r.n THEN {V2_fail(s1)}
        ELSE { LET buf == [i \in 1..HeaderBytes |->
                            IF i <= r.n THEN r.vals[i] ELSE g[i]]
                   v == CheckVersion(buf)
                   s2 == [s1 EXCEPT !.fr.buf = buf, !.fr.verdict = v]
               IN  IF v = "reject" THEN V2_reject(s2)
                   ELSE IF v = "warn"
                   THEN [s2 EXCEPT !.fr.pc = "port",
                                   !.fr.log = Append(@, "G_warning")]
                   ELSE [s2 EXCEPT !.fr.pc = "port"]
               : g \in [(r.n + 1)..HeaderBytes -> GarbageBytes] }

\* lines 169-170: dig_init_portable, dig_set_cur_port
V2_port(st) ==
    {[st EXCEPT !.fr.port = Ptr(st.fr.buf[5]), !.cur = Ptr(st.fr.buf[5]),
                !.fr.pc = "length",
                !.fr.log = Append(@, "dig_set_cur_port")]}

\* G_fseek(fp, offset, SEEK_SET): a negative offset leaves the position
G_fseek(pos, offset) == IF offset < 0 THEN pos ELSE offset

\* lines 172-178: the header size, then the seek to it
V2_length(st) ==
    LET r == dig__fread_port_L(Deref(st.fr.file), st.fr.pos, 1,
                               Deref(st.cur))
        s1 == [st EXCEPT !.fr.log = Append(@, "fread_L"),
                         !.fr.pos = @ + PORT_LONG * r.n]
    IN  IF 0 >= r.n THEN {V2_fail(s1)}
        ELSE {[s1 EXCEPT !.fr.length = r.vals[1],
                         !.fr.pos = G_fseek(@, r.vals[1]),
                         !.fr.pc = "count",
                         !.fr.log = Append(@, "G_fseek")]}

\* G_malloc(n * sizeof(int)): n slots of indeterminate content
G_malloc(n) == Ptr([i \in 1..n |-> Indeterminate])

\* width in bits of size_t, by build
SizeTBits == {32, 64}

\* offset_num * sizeof(int) computed in size_t, in units of sizeof(int):
\* with 64 bits a negative count is a request larger than any memory, with
\* 32 bits the product wraps modulo 2^32 bytes, that is 2^30 ints
AllocInts(n, bits) == IF bits = 32 THEN n % 1073741824 ELSE AsSizeT(n)

\* G_malloc finds no memory for the request and calls G_fatal_error
OutOfMemory(n, bits) == AllocInts(n, bits) > MaxAlloc

\* lines 180-187: the number of records, then the allocation of
\* offset_num * sizeof(int) bytes; offset_alloc is the count read
V2_count(st) ==
    LET r == dig__fread_port_I(Deref(st.fr.file), st.fr.pos, 1,
                               Deref(st.cur))
        s1 == [st EXCEPT !.fr.log = Append(@, "fread_I"),
                         !.fr.pos = @ + PORT_INT * r.n]
    IN  IF 0 >= r.n THEN {V2_fail(s1)}
        ELSE LET s2 == [s1 EXCEPT !.map.offset_num = r.vals[1]]
             IN  { IF OutOfMemory(r.vals[1], bits)
                   THEN [s2 EXCEPT !.fr.pc = "fatal", !.fr.fatal = TRUE,
                                   !.fr.ret = -1,
                                   !.fr.log = Append(@, "G_fatal_error")]
                   ELSE [s2 EXCEPT !.map.offset =
                                       G_malloc(AllocInts(r.vals[1], bits)),
                                   !.map.offset_alloc = r.vals[1],
                                   !.fr.pc = "offsets",
                                   !.fr.log = Append(@, "G_malloc")]
                   : bits \in SizeTBits }

\* the read stored values past the end of the array: the process goes on
\* with other memory overwritten, or is stopped by the system
Overrun(st, n) ==
    IF n > Len(Deref(st.map.offset))
    THEN {[st EXCEPT !.fr.pc = "fatal", !.fr.fatal = TRUE, !.fr.ret = -1,
                     !.fr.log = Append(@, "SIGSEGV")]}
    ELSE {}

\* lines 189-200: the offsets, fclose, the cursor
V2_offsets(st) ==
    LET r == dig__fread_port_I(Deref(st.fr.file), st.fr.pos,
                               st.map.offset_num, Deref(st.cur))
        old == Deref(st.map.offset)
        s1 == [st EXCEPT !.fr.log = Append(@, "fread_I"),
                         !.fr.pos = @ + PORT_INT * r.n,
                         !.map.offset =
                             Ptr([i \in 1..Len(old) |->
                                   IF i <= r.n THEN r.vals[i] ELSE old[i]])]
    IN  IF 0 >= r.n THEN {V2_fail(s1)}
        ELSE {[s1 EXCEPT !.fr.file = NULL, !.nopen = @ - 1,
                         !.map.next_line = 1,
                         !.fr.pc = "return", !.fr.ret = 0,
                         !.fr.log = Append(@, "fclose")]}
             \cup Overrun(s1, r.n)

V2_done(st) == st.fr.pc \in {"return", "fatal"}

V2_step(st) ==
    CASE st.fr.pc = "fopen"   -> V2_fopen(st)
      [] st.fr.pc = "header"  -> V2_header(st)
      [] st.fr.pc = "port"    -> V2_port(st)
      [] st.fr.pc = "length"  -> V2_length(st)
      [] st.fr.pc = "count"   -> V2_count(st)
      [] st.fr.pc = "offsets" -> V2_offsets(st)

RECURSIVE V2_run(_)
\* the states in which a call that is not interrupted ends
V2_run(st) ==
    IF V2_done(st) THEN {st}
    ELSE UNION {V2_run(t) : t \in V2_step(st)}

(* ------------------------------ provider ------------------------------ *)
\* A layer is [id, name]; its handle is Ptr(id), whichever call hands it
\* out.  Names need not be unique within a data source.

GetLayer(ls, i) == Ptr(ls[i + 1].id)

\* positions (1-based) of the layers of ls bearing exactly this name
Named(ls, name) == {k \in 1..Len(ls) : ls[k].name = name}

Lowest(S) == CHOOSE k \in S : \A j \in S : k <= j

RECURSIVE ScanByPrefix(_, _, _)
\* the comparison done with strncmp over the length of the target: a layer
\* whose name only starts with the target matches
ScanByPrefix(ls, name, i) ==
    IF i >= Len(ls) THEN -1
    ELSE IF /\ Len(ls[i + 1].name) >= Len(name)
            /\ strcmp(SubSeq(ls[i + 1].name, 1, Len(name)), name) = 0 THEN i
    ELSE ScanByPrefix(ls, name, i + 1)

RECURSIVE ScanByName(_, _, _)
\* lines 88-95: index of the first layer whose name strcmp()s equal, or -1
ScanByName(ls, name, i) ==
    IF i >= Len(ls) THEN -1
    ELSE IF strcmp(ls[i + 1].name, name) = 0 THEN i
    ELSE ScanByName(ls, name, i + 1)

\* OGR_DS_GetLayerByName: NULL, or the first layer of that name
GetLayerByName(ls, name) ==
    IF Named(ls, name) = {} THEN NULL
    ELSE Ptr(ls[Lowest(Named(ls, name))].id)

RECURSIVE ScanByHandle(_, _, _)
\* lines 244-245: index of the first layer whose handle is Ogr_layer, or -1
ScanByHandle(ls, h, i) ==
    IF i >= Len(ls) THEN -1
    ELSE IF GetLayer(ls, i) = h THEN i
    ELSE ScanByHandle(ls, h, i + 1)

\* OGR_DS_DeleteLayer(ds, i)
DeleteLayer(ls, i) == SubSeq(ls, 1, i) \o SubSeq(ls, i + 2, Len(ls))

\* OGR_DS_CreateLayer(ds, name, ...)
CreateLayer(ls, id, name) == Append(ls, [id |-> id, name |-> name])

(* --------------------------- call records ----------------------------- *)

\* a zero-filled struct Map_info whose names the caller has set
MapOf(dsn, layer_name) ==
    [dsn |-> dsn, layer_name |-> layer_name,
     driver |-> NULL, ds |-> NULL, layer |-> NULL,
     lines |-> NULL, lines_types |-> NULL, lines_alloc |-> 0,
     lines_num |-> 0, lines_next |-> 0, with_z |-> 0,
     feature_cache |-> NULL, feature_cache_id |-> 0,
     offset |-> NULL, offset_num |-> 0, offset_alloc |-> 0,
     next_line |-> 0]

\* op, session, result; ds: the data-source handle the call obtained;
\* found: the layer index it resolved; fr: the final frame of a level-2
\* open; pre, preLayers: the session and the data source before the call;
\* answers: what the provider answered to V1_open_new_ogr
NoCall ==
    [op |-> "none", m |-> "m1", ret |-> 0, fatal |-> FALSE,
     ds |-> 0, found |-> -1, fr |-> V2_frame(NULL), log |-> <<>>,
     pre |-> MapOf(NULL, NULL), preLayers |-> <<>>,
     answers |-> [driverOk |-> FALSE, createDsOk |-> FALSE,
                  deleteOk |-> FALSE, createOk |-> FALSE]]

Exit(fatal) == IF fatal THEN "exited" ELSE "running"

(* -------------------------- V1_open_old_ogr --------------------------- *)

WITHOUT_Z == 0

\* lines 103-114: the layer handle, the empty caches, 2D
V1_attach(map, layer) ==
    [map EXCEPT !.layer = layer,
                !.lines = NULL, !.lines_types = NULL, !.lines_alloc = 0,
                !.lines_num = 0, !.lines_next = 0,
                !.with_z = WITHOUT_Z,
                !.feature_cache = NULL, !.feature_cache_id = -1]

\* lines 45-117; openOk: whether OGROpen() returns a data source
V1_open_old_ogr(m, update, openOk) ==
    /\ proc = "running" /\ m \in sessions /\ ncalls < MaxCalls
    /\ ncalls' = ncalls + 1
    /\ LET map == Map[m]
           call == [NoCall EXCEPT !.op = "V1_open_old_ogr", !.m = m,
                                  !.pre = map, !.preLayers = layers]
           h == dsCount + 1
           i == ScanByName(layers, Deref(map.layer_name), 0)
       IN  IF map.dsn = NULL \/ map.layer_name = NULL
           THEN \* lines 61-69
                /\ last' = [call EXCEPT !.ret = -1, !.fatal = TRUE,
                                        !.log = <<"G_fatal_error">>]
                /\ proc' = "exited"
                /\ UNCHANGED <<Map, dsCount, dsReleased, registered, level>>
           ELSE IF ~openOk
           THEN \* lines 74-80
                /\ last' = [call EXCEPT !.ret = -1, !.fatal = TRUE,
                                        !.log = <<"OGRRegisterAll", "OGROpen",
                                                  "G_fatal_error">>]
                /\ proc' = "exited"
                /\ registered' = TRUE
                /\ UNCHANGED <<Map, dsCount, dsReleased, level>>
           ELSE IF i = -1
           THEN \* lines 81-100
                /\ last' = [call EXCEPT !.ret = -1, !.fatal = TRUE, !.ds = h,
                                        !.log = <<"OGRRegisterAll", "OGROpen",
                                                  "OGR_DS_Destroy",
                                                  "G_fatal_error">>]
                /\ proc' = "exited"
                /\ registered' = TRUE
                /\ dsCount' = h
                /\ dsReleased' = dsReleased \cup {h}
                /\ Map' = [Map EXCEPT ![m].ds = Ptr(h)]
                /\ UNCHANGED level
           ELSE \* lines 81-116
                /\ last' = [call EXCEPT !.ret = 0, !.ds = h, !.found = i,
                                        !.log = <<"OGRRegisterAll", "OGROpen">>]
                /\ registered' = TRUE
                /\ dsCount' = h
                /\ Map' = [Map EXCEPT ![m] =
                              V1_attach([map EXCEPT !.ds = Ptr(h)],
                                        GetLayer(layers, i))]
                /\ level' = [level EXCEPT ![m] = 1]
                /\ UNCHANGED <<proc, dsReleased>>
    /\ UNCHANGED <<fidx, written, layers, nextLayer, overwrite, Cur_Head,
                   openFiles, sessions, pending, closed>>

(* -------------------------- V2_open_old_ogr --------------------------- *)

\* lines 127-201, run from call to return
V2_open_old_ogr(m) ==
    /\ proc = "running" /\ m \in sessions /\ ncalls < MaxCalls
    /\ ncalls' = ncalls + 1
    /\ \E end \in V2_run([fr |-> V2_frame(fidx[m]), map |-> Map[m],
                          cur |-> Cur_Head, nopen |-> openFiles]) :
          /\ Map' = [Map EXCEPT ![m] = end.map]
          /\ Cur_Head' = end.cur
          /\ openFiles' = end.nopen
          /\ proc' = Exit(end.fr.fatal)
          /\ level' = IF end.fr.ret = 0 THEN [level EXCEPT ![m] = 2]
                      ELSE level
          /\ last' = [NoCall EXCEPT !.op = "V2_open_old_ogr", !.m = m,
                                    !.ret = end.fr.ret,
                                    !.fatal = end.fr.fatal,
                                    !.fr = end.fr, !.log = end.fr.log,
                                    !.pre = Map[m], !.preLayers = layers]
    /\ UNCHANGED <<fidx, written, layers, nextLayer, dsCount, dsReleased,
                   overwrite, registered, sessions, pending, closed>>

\* what a read through Cur_Head finds once the call that installed the
\* port has returned: Cur_Head points at the local 'port' of that call
\* (line 170), whose storage is gone
Dangling(cur, fr) ==
    IF fr.port # NULL /\ cur = fr.port
    THEN {Ptr(o) : o \in ByteOrders}
    ELSE {cur}

\* lines 127-201, one step of a call of session m while calls of other
\* sessions are under way; the first step enters the function
V2_open_old_ogr_step(m) ==
    /\ proc = "running" /\ m \in sessions
    /\ IF pending[m] = NULL
       THEN ncalls < MaxCalls /\ ncalls' = ncalls + 1
       ELSE UNCHANGED ncalls
    /\ LET fr == IF pending[m] = NULL THEN V2_frame(fidx[m])
                 ELSE Deref(pending[m])
       IN  \E t \in V2_step([fr |-> fr, map |-> Map[m], cur |-> Cur_Head,
                             nopen |-> openFiles]) :
              /\ Map' = [Map EXCEPT ![m] = t.map]
              /\ openFiles' = t.nopen
              /\ IF V2_done(t)
                 THEN /\ pending' = [pending EXCEPT ![m] = NULL]
                      /\ Cur_Head' \in Dangling(t.cur, t.fr)
                      /\ proc' = Exit(t.fr.fatal)
                      /\ level' = IF t.fr.ret = 0
                                  THEN [level EXCEPT ![m] = 2] ELSE level
                      /\ last' = [NoCall EXCEPT
                                    !.op = "V2_open_old_ogr", !.m = m,
                                    !.ret = t.fr.ret, !.fatal = t.fr.fatal,
                                    !.fr = t.fr, !.log = t.fr.log,
                                    !.pre = Map[m], !.preLayers = layers]
                 ELSE /\ pending' = [pending EXCEPT ![m] = Ptr(t.fr)]
                      /\ Cur_Head' = t.cur
                      /\ UNCHANGED <<proc, level, last>>
    /\ UNCHANGED <<fidx, written, layers, nextLayer, dsCount, dsReleased,
                   overwrite, registered, sessions, closed>>

(* -------------------------- V1_open_new_ogr --------------------------- *)

\* the overwrite check left out: an existing layer is always replaced
AlwaysOverwrite == TRUE

\* line 246: the process-wide overwrite flag
G_get_overwrite == overwrite

\* the unknown driver treated as fatal
NoDriverFatal(call) ==
    [call EXCEPT !.ret = -1, !.fatal = TRUE, !.log = <<"G_fatal_error">>]

\* lines 226-230: the driver is not known: G_warning, return (-1)
NoDriver(call) == [call EXCEPT !.ret = -1, !.log = <<"G_warning">>]

\* the result of OGR_DS_DeleteLayer not looked at
DeleteIgnored(i, deleteOk) == FALSE

\* lines 246-251: the layer exists, overwriting is allowed, and
\* OGR_DS_DeleteLayer does not return OGRERR_NONE
DeleteFails(i, deleteOk) == i # -1 /\ ~deleteOk

\* lines 213-279; the provider's answers: driverOk (OGRGetDriverByName),
\* createDsOk (OGR_Dr_CreateDataSource), deleteOk (OGR_DS_DeleteLayer),
\* createOk (OGR_DS_CreateLayer).  The parameters name and with_z are
\* not used by the code: the layer is named by Map->fInfo.ogr.layer_name.
\* The caller passes strings, not NULL, to the provider.
V1_open_new_ogr(m, driverOk, createDsOk, deleteOk, createOk) ==
    /\ proc = "running" /\ m \in sessions /\ ncalls < MaxCalls
    /\ Map[m].dsn # NULL /\ Map[m].layer_name # NULL
    /\ ncalls' = ncalls + 1
    /\ registered' = TRUE
    /\ LET map == Map[m]
           name == Deref(map.layer_name)
           call == [NoCall EXCEPT !.op = "V1_open_new_ogr", !.m = m,
                                  !.pre = map, !.preLayers = layers,
                                  !.answers = [driverOk |-> driverOk,
                                               createDsOk |-> createDsOk,
                                               deleteOk |-> deleteOk,
                                               createOk |-> createOk]]
           h == dsCount + 1
           map1 == [map EXCEPT !.driver = Ptr(1)]
           map2 == [map1 EXCEPT !.ds = Ptr(h)]
           Ogr_layer == GetLayerByName(layers, name)
           i == IF Ogr_layer = NULL THEN -1
                ELSE ScanByHandle(layers, Ogr_layer, 0)
           kept == IF i # -1 THEN DeleteLayer(layers, i) ELSE layers
       IN  IF ~driverOk
           THEN \* lines 226-230
                /\ last' = NoDriver(call)
                /\ proc' = Exit(NoDriver(call).fatal)
                /\ UNCHANGED <<Map, layers, nextLayer, dsCount, level>>
           ELSE IF ~createDsOk
           THEN \* lines 231-239
                /\ last' = [call EXCEPT !.ret = -1, !.log = <<"G_warning">>]
                /\ Map' = [Map EXCEPT ![m] = map1]
                /\ UNCHANGED <<layers, nextLayer, dsCount, proc, level>>
           ELSE IF i # -1 /\ ~G_get_overwrite
           THEN \* lines 240-246, 256-259
                /\ last' = [call EXCEPT !.ret = -1, !.fatal = TRUE, !.ds = h,
                                        !.found = i,
                                        !.log = <<"G_fatal_error">>]
                /\ proc' = "exited"
                /\ dsCount' = h
                /\ Map' = [Map EXCEPT ![m] = map2]
                /\ UNCHANGED <<layers, nextLayer, level>>
           ELSE IF DeleteFails(i, deleteOk)
           THEN \* lines 246-254
                /\ last' = [call EXCEPT !.ret = -1, !.ds = h, !.found = i,
                                        !.log = <<"G_warning",
                                                  "OGR_DS_DeleteLayer",
                                                  "G_warning">>]
                /\ dsCount' = h
                /\ Map' = [Map EXCEPT ![m] = map2]
                /\ UNCHANGED <<layers, nextLayer, proc, level>>
           ELSE IF ~createOk
           THEN \* lines 265-275
                /\ last' = [call EXCEPT !.ret = -1, !.ds = h, !.found = i,
                                        !.log = (IF i # -1
                                                 THEN <<"G_warning",
                                                        "OGR_DS_DeleteLayer">>
                                                 ELSE <<>>)
                                                \o <<"OGR_DS_CreateLayer",
                                                     "G_warning">>]
                /\ dsCount' = h
                /\ layers' = kept
                /\ Map' = [Map EXCEPT ![m] = map2]
                /\ UNCHANGED <<nextLayer, proc, level>>
           ELSE \* lines 265-278
                /\ last' = [call EXCEPT !.ret = 0, !.ds = h, !.found = i,
                                        !.log = (IF i # -1
                                                 THEN <<"G_warning",
                                                        "OGR_DS_DeleteLayer">>
                                                 ELSE <<>>)
                                                \o <<"OGR_DS_CreateLayer">>]
                /\ dsCount' = h
                /\ layers' = CreateLayer(kept, nextLayer, name)
                /\ nextLayer' = nextLayer + 1
                /\ Map' = [Map EXCEPT ![m] =
                              [map2 EXCEPT !.layer = Ptr(nextLayer)]]
                /\ level' = [level EXCEPT ![m] = 1]
                /\ UNCHANGED proc
    /\ UNCHANGED <<fidx, written, dsReleased, overwrite, Cur_Head, openFiles,
                   sessions, pending, closed>>

(* ------------------------------- close -------------------------------- *)

\* most closes made in one run
MaxCloses == 1

\* what a caller sees of a loaded table: the cursor, the count, the array
Loaded(m) ==
    [m |-> m, level |-> level[m], next_line |-> Map[m].next_line,
     offset_num |-> Map[m].offset_num, offset |-> Map[m].offset]

\* Session close (specification 3, SessionState): releases the provider
\* handles and frees the table.  The struct itself is the caller's and
\* keeps what the session left in it.
Close(m) ==
    /\ proc = "running" /\ m \in sessions
    /\ level[m] >= 1 /\ pending[m] = NULL
    /\ Len(closed) < MaxCloses
    /\ closed' = Append(closed, Loaded(m))
    /\ dsReleased' = dsReleased \cup {Deref(Map[m].ds)}
    /\ level' = [level EXCEPT ![m] = 0]
    /\ ncalls' = 0
    /\ last' = [NoCall EXCEPT !.op = "Close", !.m = m, !.pre = Map[m],
                              !.preLayers = layers]
    /\ UNCHANGED <<Map, fidx, written, layers, nextLayer, dsCount, overwrite,
                   Cur_Head, openFiles, registered, proc, sessions, pending>>

(* ------------------------- initial conditions ------------------------- *)

\* versions a writer may declare as written version or as floor
Versions == {<<4, 1>>, <<5, 0>>, <<5, 1>>, <<6, 0>>}

\* offsets stored in generated files
OffsetVals == {0, 258}

OffsetSeqs == UNION {[1..n -> OffsetVals] : n \in 0..MaxOffsets}

\* positions of the table: right after the 9 fixed bytes, or 4 bytes on
HeaderLengths == {HeaderBytes + PORT_LONG, HeaderBytes + PORT_LONG + PORT_INT}

\* the bytes a writer produces from its inputs, before truncation
FullBytes(wr) ==
    IF wr.layout = "documented"
    THEN FidxDocumented(wr.w, wr.f, wr.order, wr.hlen, wr.hlen + PORT_INT,
                        wr.count, wr.offs)
    ELSE FidxPlain(wr.w, wr.f, wr.order, wr.hlen, wr.count, wr.offs)

\* the file on disk: the first wr.keep bytes of what was written
FileBytes(wr) == SubSeq(FullBytes(wr), 1, Min(wr.keep, Len(FullBytes(wr))))

Written(layout, w, f, order, hlen, count, offs, keep) ==
    [layout |-> layout, w |-> w, f |-> f, order |-> order, hlen |-> hlen,
     count |-> count, offs |-> offs, keep |-> keep]

NotWritten == Written("none", <<0, 0>>, <<0, 0>>, 0, 0, 0, <<>>, 0)

\* a complete, current-version file with one offset
PlainWritten ==
    Written("plain", <<5, 0>>, <<5, 0>>, ENDIAN_LITTLE,
            HeaderBytes + PORT_LONG, 1, <<258>>, 100)

\* every pair of written version and floor, on a complete file
VersionWritten ==
    {Written("plain", w, f, order, HeaderBytes + PORT_LONG, 1, <<258>>, 100) :
        w \in Versions, f \in Versions, order \in ByteOrders}

\* complete files of both layouts whose count field is the number of
\* offsets or exceeds it by 1 or 2, and files with count field exact that
\* were cut: empty, inside the header, after it, inside the header size,
\* or inside the last value
BodyWritten ==
    UNION {
      LET full == Written(layout, <<5, 0>>, <<5, 0>>, order, hlen,
                          Len(offs), offs, 100)
          n == Len(FullBytes(full))
      IN  {[full EXCEPT !.count = Len(offs) + extra] : extra \in 0..2}
          \cup {[full EXCEPT !.keep = k] : k \in {0, 3, 5, 7, n - 2}}
      : layout \in {"plain", "documented"}, order \in ByteOrders,
        hlen \in HeaderLengths, offs \in OffsetSeqs }

\* complete files whose count field is negative: -1 and -2^30
NegativeWritten ==
    {Written("plain", <<5, 0>>, <<5, 0>>, order, HeaderBytes + PORT_LONG,
             count, offs, 100) :
        order \in ByteOrders, count \in {-1, -1073741824},
        offs \in {<<>>, <<258>>}}

LayerNames == {StrA, StrAB, Stra}

\* data sources of up to MaxLayers layers, handles numbered in order
LayerLists ==
    UNION {{[i \in 1..n |-> [id |-> i, name |-> names[i]]] :
               names \in [1..n -> LayerNames]} : n \in 0..MaxLayers}

\* Map->fInfo.ogr.dsn and layer_name as a caller may leave them
NamePairs ==
    {<<Ptr(StrA), Ptr(t)>> : t \in LayerNames \cup {StrEmpty}}
        \cup {<<NULL, Ptr(StrA)>>, <<Ptr(StrEmpty), Ptr(StrA)>>,
              <<Ptr(StrA), NULL>>}

\* a struct left over from earlier use: every field holds something
Dirty(map) ==
    [map EXCEPT !.driver = Ptr(9), !.ds = Ptr(9), !.layer = Ptr(9),
                !.lines = Ptr(9), !.lines_types = Ptr(9), !.lines_alloc = 4,
                !.lines_num = 2, !.lines_next = 1, !.with_z = 1,
                !.feature_cache = Ptr(9), !.feature_cache_id = 3,
                !.offset = Ptr(<<7>>), !.offset_num = 1, !.offset_alloc = 1,
                !.next_line = 2]

InitCommon ==
    /\ dsCount = 0 /\ dsReleased = {} /\ Cur_Head = NULL /\ openFiles = 0
    /\ registered = FALSE /\ proc = "running" /\ ncalls = 0 /\ last = NoCall
    /\ sessions = {"m1"}
    /\ level = [m \in Maps |-> 0]
    /\ pending = [m \in Maps |-> NULL] /\ closed = <<>>

\* a varied data source with a plain index file
InitProvider ==
    /\ InitCommon
    /\ layers \in LayerLists
    /\ nextLayer = Len(layers) + 1
    /\ overwrite \in BOOLEAN
    /\ \E np \in NamePairs, d \in BOOLEAN :
          Map = [m \in Maps |->
                   IF m = "m1"
                   THEN IF d THEN Dirty(MapOf(np[1], np[2]))
                        ELSE MapOf(np[1], np[2])
                   ELSE MapOf(NULL, NULL)]
    /\ written = [m \in Maps |-> IF m = "m1" THEN PlainWritten ELSE NotWritten]
    /\ fidx = [m \in Maps |->
                 IF m = "m1" THEN Ptr(FileBytes(PlainWritten)) ELSE NULL]

\* a plain data source with a varied index file, or none
InitIndex ==
    /\ InitCommon
    /\ layers = <<[id |-> 1, name |-> StrA]>>
    /\ nextLayer = 2
    /\ overwrite = FALSE
    /\ \E d \in BOOLEAN :
          Map = [m \in Maps |->
                   IF m = "m1"
                   THEN IF d THEN Dirty(MapOf(Ptr(StrA), Ptr(StrA)))
                        ELSE MapOf(Ptr(StrA), Ptr(StrA))
                   ELSE MapOf(NULL, NULL)]
    /\ \E wr \in VersionWritten \cup BodyWritten \cup NegativeWritten
                    \cup {NotWritten} :
          /\ written = [m \in Maps |-> IF m = "m1" THEN wr ELSE NotWritten]
          /\ fidx = [m \in Maps |->
                       IF m = "m1" /\ wr.layout # "none"
                       THEN Ptr(FileBytes(wr)) ELSE NULL]

Init == InitProvider \/ InitIndex

\* the provider is asked only as far as the code gets
Next ==
    \E m \in Maps :
        \/ \E update \in {0, 1}, openOk \in BOOLEAN :
              V1_open_old_ogr(m, update, openOk)
        \/ V2_open_old_ogr(m)
        \/ \E driverOk \in BOOLEAN :
              \E createDsOk \in (IF driverOk THEN BOOLEAN ELSE {FALSE}) :
                 \E deleteOk \in (IF createDsOk /\ overwrite
                                  THEN BOOLEAN ELSE {TRUE}) :
                    \E createOk \in (IF createDsOk /\ deleteOk
                                     THEN BOOLEAN ELSE {FALSE}) :
                       V1_open_new_ogr(m, driverOk, createDsOk, deleteOk,
                                       createOk)

Spec == Init /\ [][Next]_vars

\* the calls against every data source, with a plain index file
SpecProvider == InitProvider /\ [][Next]_vars

\* the calls against every index file, with a plain data source
SpecIndex == InitIndex /\ [][Next]_vars

\* files of the layout the reader walks, complete, whose count field is
\* the number of offsets or one more
ReopenWritten ==
    {Written("plain", <<5, 0>>, <<5, 0>>, order, HeaderBytes + PORT_LONG,
             Len(offs) + extra, offs, 100) :
        order \in ByteOrders, offs \in OffsetSeqs, extra \in 0..1}

\* one data source and one fidx file for the layer, which a session opens,
\* closes and opens again, in the same struct (used before or not) or in
\* another one
InitReopen ==
    /\ dsCount = 0 /\ dsReleased = {} /\ Cur_Head = NULL /\ openFiles = 0
    /\ registered = FALSE /\ proc = "running" /\ ncalls = 0 /\ last = NoCall
    /\ sessions = Maps
    /\ level = [m \in Maps |-> 0]
    /\ pending = [m \in Maps |-> NULL] /\ closed = <<>>
    /\ layers = <<[id |-> 1, name |-> StrA]>>
    /\ nextLayer = 2
    /\ overwrite = FALSE
    /\ \E d \in BOOLEAN :
          Map = [m \in Maps |->
                   IF m = "m1" /\ d THEN Dirty(MapOf(Ptr(StrA), Ptr(StrA)))
                   ELSE MapOf(Ptr(StrA), Ptr(StrA))]
    /\ \E wr \in ReopenWritten :
          /\ written = [m \in Maps |-> wr]
          /\ fidx = [m \in Maps |-> Ptr(FileBytes(wr))]

\* the caller keeps to the lifecycle: level 1, then level 2, then close
NextReopen ==
    \E m \in Maps :
        \/ /\ level[m] = 0
           /\ \E update \in {0, 1}, openOk \in BOOLEAN :
                 V1_open_old_ogr(m, update, openOk)
        \/ /\ level[m] = 1
           /\ V2_open_old_ogr(m)
        \/ Close(m)

\* open, close and open again
SpecReopen == InitReopen /\ [][NextReopen]_vars

\* complete files of the layout the reader walks, with one offset or more
ConcWritten(order) ==
    {Written("plain", <<5, 0>>, <<5, 0>>, order, hlen, Len(offs), offs, 100) :
        hlen \in HeaderLengths, offs \in OffsetSeqs \ {<<>>}}

\* two sessions at level 1 on the same data source; the fidx file of the
\* first is little-endian, that of the second big-endian
InitConc ==
    /\ dsCount = 2 /\ dsReleased = {} /\ Cur_Head = NULL /\ openFiles = 0
    /\ registered = TRUE /\ proc = "running" /\ ncalls = 0 /\ last = NoCall
    /\ sessions = Maps
    /\ level = [m \in Maps |-> 1]
    /\ pending = [m \in Maps |-> NULL] /\ closed = <<>>
    /\ layers = <<[id |-> 1, name |-> StrA]>>
    /\ nextLayer = 2
    /\ overwrite = FALSE
    /\ Map = [m \in Maps |->
                V1_attach([MapOf(Ptr(StrA), Ptr(StrA)) EXCEPT
                              !.ds = Ptr(IF m = "m1" THEN 1 ELSE 2)],
                          GetLayer(layers, 0))]
    /\ \E w1 \in ConcWritten(ENDIAN_LITTLE), w2 \in ConcWritten(ENDIAN_BIG) :
          /\ written = [m \in Maps |-> IF m = "m1" THEN w1 ELSE w2]
          /\ fidx = [m \in Maps |->
                       Ptr(FileBytes(IF m = "m1" THEN w1 ELSE w2))]

\* the level-2 opens of the sessions run interleaved, statement by
\* statement
NextConc == \E m \in Maps : V2_open_old_ogr_step(m)

SpecConc == InitConc /\ [][NextConc]_vars

(* ------------------------------ claims -------------------------------- *)

\* the most recent call was a level-2 open of session m
IsV2(m) == last.op = "V2_open_old_ogr" /\ last.m = m

\* what the most recent level-2 open read from the 5-byte header
FileVersion == <<last.fr.buf[1], last.fr.buf[2]>>

FileFloor == <<last.fr.buf[3], last.fr.buf[4]>>

\* the version this reader supports
Supported == <<5, 0>>

\* major.minor order, major first
VersionLE(a, b) == a[1] < b[1] \/ (a[1] = b[1] /\ a[2] <= b[2])

Logged(e) == \E k \in 1..Len(last.log) : last.log[k] = e

\* the file of session m is complete and its count field is its length
Complete(m) ==
    /\ written[m].layout # "none"
    /\ written[m].count = Len(written[m].offs)
    /\ written[m].keep >= Len(FullBytes(written[m]))

\* C1: a header with written version W and floor F is accepted iff
\* W <= 5.0, or W > 5.0 and F <= 5.0, comparing major.minor pairs.
C1_VersionAcceptance ==
    \A m \in Maps :
        IsV2(m) /\ last.fr.nread = HeaderBytes =>
            ((last.fr.verdict # "reject") <=>
                (\/ VersionLE(FileVersion, Supported)
                 \/ (~VersionLE(FileVersion, Supported)
                     /\ VersionLE(FileFloor, Supported))))

\* C2: when the header is rejected the call ends in a fatal error, reads
\* nothing after the header, and leaves offset, offset_num, offset_alloc
\* and next_line as they were.
C2_RejectReadsNothing ==
    \A m \in Maps :
        IsV2(m) /\ last.fr.verdict = "reject" =>
            /\ last.fatal /\ proc = "exited"
            /\ ~Logged("fread_L") /\ ~Logged("fread_I")
            /\ ~Logged("G_fseek") /\ ~Logged("G_malloc")
            /\ Map[m].offset = last.pre.offset
            /\ Map[m].offset_num = last.pre.offset_num
            /\ Map[m].offset_alloc = last.pre.offset_alloc
            /\ Map[m].next_line = last.pre.next_line

\* a complete file with written version and floor 5.1 was rejected on a
\* session that held a table before
C2_Witness ==
    /\ IsV2("m1") /\ last.fr.verdict = "reject"
    /\ last.fr.nread = HeaderBytes
    /\ FileVersion = <<5, 1>> /\ FileFloor = <<5, 1>>
    /\ Len(Deref(fidx["m1"])) > HeaderBytes
    /\ last.pre.offset # NULL

\* C3: a complete file in the documented layout with N >= 0 offsets is
\* read successfully, and afterwards offset_num = N and offset[0..N-1]
\* are the offsets written, for both byte orders.
C3_RoundTrip ==
    \A m \in Maps :
        IsV2(m) /\ Complete(m) /\ written[m].layout = "documented"
                /\ VersionLE(written[m].w, Supported) =>
            /\ last.ret = 0
            /\ Map[m].offset_num = Len(written[m].offs)
            /\ Map[m].offset # NULL
            /\ Len(Deref(Map[m].offset)) >= Len(written[m].offs)
            /\ \A i \in 1..Len(written[m].offs) :
                  Deref(Map[m].offset)[i] = written[m].offs[i]

\* complete offset values the file of session m holds after its count field
\* (layout in which the count sits at the header size)
StoredOffsets(m) ==
    (Len(Deref(fidx[m])) - written[m].hlen - PORT_INT) \div PORT_INT

\* C4: a file whose count field is K but which holds fewer than K offsets
\* fails to load, and the session is not left with offset_num = K,
\* offset_alloc = K and a partly filled array.
C4_ShortReadRejected ==
    \A m \in Maps :
        IsV2(m) /\ written[m].layout = "plain"
                /\ VersionLE(written[m].w, Supported)
                /\ Len(Deref(fidx[m])) >= written[m].hlen + PORT_INT
                /\ StoredOffsets(m) < written[m].count =>
            /\ last.ret = -1
            /\ ~(/\ Map[m].offset_num = written[m].count
                 /\ Map[m].offset_alloc = written[m].count
                 /\ Map[m].offset # NULL
                 /\ \E i \in 1..Len(Deref(Map[m].offset)) :
                       Deref(Map[m].offset)[i] = Indeterminate)

\* the most recent call was a level-1 open of session m that got a data
\* source from the provider
IsV1Scan(m) == last.op = "V1_open_old_ogr" /\ last.m = m /\ last.ds # 0

\* C5: level-1 open resolves the layer at the lowest index whose name
\* equals the target exactly; with no such layer it fails fatally and
\* leaves the layer handle alone.
C5_FirstExactMatch ==
    \A m \in Maps :
        IsV1Scan(m) =>
            LET hits == Named(last.preLayers, Deref(last.pre.layer_name))
            IN  IF hits # {}
                THEN /\ last.ret = 0 /\ ~last.fatal
                     /\ last.found = Lowest(hits) - 1
                     /\ Map[m].layer = Ptr(last.preLayers[Lowest(hits)].id)
                ELSE /\ last.fatal /\ last.ret = -1 /\ proc = "exited"
                     /\ Map[m].layer = last.pre.layer

\* layers "A", "AB", "a" and target "A": resolved to index 0
C5_Witness ==
    /\ IsV1Scan("m1") /\ last.ret = 0
    /\ Len(last.preLayers) = 3
    /\ last.preLayers[1].name = StrA /\ last.preLayers[2].name = StrAB
    /\ last.preLayers[3].name = Stra
    /\ last.pre.layer_name = Ptr(StrA)
    /\ last.found = 0 /\ Map["m1"].layer = Ptr(1)

\* the most recent call was an OpenNewLayer of session m that got a data
\* source from the provider
IsNew(m) == last.op = "V1_open_new_ogr" /\ last.m = m /\ last.ds # 0

Ids(ls) == {ls[k].id : k \in 1..Len(ls)}

C7_ExactlyOneLayer ==
    \A m \in Maps :
        IsNew(m) /\ last.ret = 0 =>
            LET hits == Named(layers, Deref(Map[m].layer_name))
            IN  /\ Cardinality(hits) = 1
                /\ \A k \in hits :
                      /\ layers[k].id \notin Ids(last.preLayers)
                      /\ Map[m].layer = Ptr(layers[k].id)

\* C8: with level 1 open and no fidx file, level-2 open warns and returns
\* failure, is not fatal, and leaves the session as it was.
C8_MissingIndexNonFatal ==
    \A m \in Maps :
        IsV2(m) /\ last.fr.disk = NULL =>
            /\ last.ret = -1 /\ ~last.fatal /\ proc = "running"
            /\ last.log = <<"G_warning">>
            /\ Map[m] = last.pre
            /\ level[m] # 2

\* level 1 was opened, the fidx file is absent, level-2 open was tried
C8_Witness ==
    /\ IsV2("m1") /\ fidx["m1"] = NULL
    /\ level["m1"] = 1 /\ Map["m1"].layer = Ptr(1) /\ Map["m1"].ds = Ptr(1)

\* C9: every failing exit of level-1 open and of OpenNewLayer taken after
\* the data source was obtained has released the data-source handle.
C9_NoHandleLeak ==
    last.op \in {"V1_open_old_ogr", "V1_open_new_ogr"}
        /\ last.ret = -1 /\ last.ds # 0 =>
            last.ds \in dsReleased

\* C10: every exit of level-2 open taken after the fidx file was opened
\* has closed the file.
C10_FileClosed ==
    \A m \in Maps :
        IsV2(m) /\ last.fr.disk # NULL =>
            last.fr.file = NULL /\ openFiles = 0

\* two reads of a slot give the same value for certain: an indeterminate
\* slot holds whatever the allocator left there
SameValue(a, b) == a = b /\ a # Indeterminate /\ b # Indeterminate

\* C11: with the data source and the fidx file unchanged, a session that
\* went through level-1 and level-2 open after a close holds the same
\* cursor, the same offset_num and the same offsets as the session that
\* did so before the close.
C11_IdempotentReopen ==
    \A k \in 1..Len(closed), m \in Maps :
        closed[k].level = 2 /\ level[m] = 2 =>
            /\ Map[m].next_line = closed[k].next_line
            /\ Map[m].offset_num = closed[k].offset_num
            /\ \A i \in 1..Map[m].offset_num :
                  SameValue(Deref(Map[m].offset)[i],
                            Deref(closed[k].offset)[i])

\* a string argument that is NULL or ""
AbsentOrEmpty(p) == IF p = NULL THEN TRUE ELSE Deref(p) = StrEmpty

\* C12: a level-1 open whose data-source identifier or layer name is
\* absent or empty ends in the fatal error before anything else happens:
\* drivers are not registered, no data source is opened, and no field of
\* the session changes.
C12_PreconditionFatal ==
    \A m \in Maps :
        /\ last.op = "V1_open_old_ogr" /\ last.m = m
        /\ (AbsentOrEmpty(last.pre.dsn) \/ AbsentOrEmpty(last.pre.layer_name))
        => /\ last.fatal /\ proc = "exited"
           /\ last.log = <<"G_fatal_error">>
           /\ last.ds = 0
           /\ Map[m] = last.pre

\* the most recent call was an OpenNewLayer of session m
IsNewCall(m) == last.op = "V1_open_new_ogr" /\ last.m = m

\* C13: OpenNewLayer with a driver name the provider does not know warns
\* and returns failure, is not fatal, creates or opens no data source,
\* deletes and creates no layer, and leaves the session's driver, data
\* source and layer fields as they were.
C13_UnknownDriverRecoverable ==
    \A m \in Maps :
        IsNewCall(m) /\ ~last.answers.driverOk =>
            /\ last.ret = -1 /\ ~last.fatal /\ proc = "running"
            /\ last.log = <<"G_warning">>
            /\ last.ds = 0
            /\ layers = last.preLayers
            /\ Map[m].driver = last.pre.driver
            /\ Map[m].ds = last.pre.ds
            /\ Map[m].layer = last.pre.layer

\* the driver was unknown while a layer of the target name existed,
\* overwriting was allowed and the struct held handles from earlier use
C13_Witness ==
    /\ IsNewCall("m1") /\ ~last.answers.driverOk
    /\ last.ret = -1
    /\ overwrite /\ Named(layers, Deref(last.pre.layer_name)) # {}
    /\ last.pre.driver = Ptr(9) /\ Map["m1"].driver = Ptr(9)

IsReadOrSeek(e) == e \in {"fread_L", "fread_I", "G_fseek"}

\* the multi-byte reads and the seeks of the most recent call, in order
ReadsAndSeeks == SelectSeq(last.log, IsReadOrSeek)

\* C14: once the header of a complete file in the documented layout is
\* accepted, level-2 open reads header_length, seeks to it, reads the
\* payload_offset there, seeks to payload_offset, and only then reads the
\* count and the offsets; offset_num is the integer at payload_offset.
C14_ReadOrder ==
    \A m \in Maps :
        /\ IsV2(m) /\ Complete(m) /\ written[m].layout = "documented"
        /\ last.fr.verdict \in {"accept", "warn"}
        => /\ ReadsAndSeeks = <<"fread_L", "G_fseek", "fread_I", "G_fseek",
                                "fread_I", "fread_I">>
           /\ Map[m].offset_num = written[m].count

\* slots of the array of session m that a read has filled
OffsetsLoaded(m) ==
    Cardinality({i \in 1..Len(Deref(Map[m].offset)) :
                    Deref(Map[m].offset)[i] # Indeterminate})

\* C15: after a level-2 open that returned 0 the session is at level 2,
\* next_line = 1, offset_alloc = offset_num = the count read from the
\* file, and that many offsets have been loaded.
C15_WellFormedTable ==
    \A m \in Maps :
        IsV2(m) /\ last.ret = 0 =>
            /\ level[m] = 2
            /\ Map[m].next_line = 1
            /\ Map[m].offset # NULL
            /\ Map[m].offset_alloc = Map[m].offset_num
            /\ Len(Deref(Map[m].offset)) = Map[m].offset_num
            /\ OffsetsLoaded(m) = Map[m].offset_num

\* C16: after a level-1 open that returned 0, whatever the struct held
\* before, lines and lines_types are absent, lines_alloc, lines_num and
\* lines_next are 0, feature_cache is absent with feature_cache_id = -1,
\* the map is 2D, and the cursor next_line is at the first feature.
C16_CachesAndCursorReset ==
    \A m \in Maps :
        last.op = "V1_open_old_ogr" /\ last.m = m /\ last.ret = 0 =>
            /\ Map[m].lines = NULL /\ Map[m].lines_types = NULL
            /\ Map[m].lines_alloc = 0 /\ Map[m].lines_num = 0
            /\ Map[m].lines_next = 0
            /\ Map[m].feature_cache = NULL /\ Map[m].feature_cache_id = -1
            /\ Map[m].with_z = WITHOUT_Z
            /\ Map[m].next_line = 1

\* C17: OpenNewLayer with overwriting allowed and a layer of the target
\* name present, when deleting that layer fails: the call warns and
\* returns failure, is not fatal, the data source keeps its layers, no
\* layer is created, and the session's layer handle is not set.
C17_DeleteFailureAborts ==
    \A m \in Maps :
        /\ IsNewCall(m) /\ overwrite
        /\ Named(last.preLayers, Deref(last.pre.layer_name)) # {}
        /\ last.answers.driverOk /\ last.answers.createDsOk
        /\ ~last.answers.deleteOk
        => /\ last.ret = -1 /\ ~last.fatal /\ proc = "running"
           /\ Logged("G_warning") /\ ~Logged("OGR_DS_CreateLayer")
           /\ layers = last.preLayers
           /\ Map[m].layer = last.pre.layer

\* layers "AB", "A", "A" and target "A": deleting layer 1 failed
C17_Witness ==
    /\ IsNewCall("m1") /\ overwrite /\ ~last.answers.deleteOk
    /\ last.answers.createDsOk
    /\ last.pre.layer_name = Ptr(StrA)
    /\ Len(last.preLayers) = 3 /\ last.preLayers[1].name = StrAB
    /\ last.preLayers[2].name = StrA /\ last.preLayers[3].name = StrA
    /\ last.found = 1 /\ last.ret = -1
    /\ last.pre.layer = NULL /\ Map["m1"].layer = NULL

\* session m is inside a level-2 open and its next statement is a
\* multi-byte read
AboutToRead(m) ==
    IF pending[m] = NULL THEN FALSE
    ELSE Deref(pending[m]).pc \in {"length", "count", "offsets"}

\* C18: whenever a session is about to read the header size, the count or
\* the offsets, the byte order that read is decoded with is the tag of
\* the header of its own file, also while another session's level-2 open
\* is under way.
C18_ByteOrderIsolation ==
    \A m \in Maps :
        AboutToRead(m) => Cur_Head = Ptr(Deref(pending[m]).buf[5])

\* number of entries e in the log of the most recent call
Count(e) == Cardinality({k \in 1..Len(last.log) : last.log[k] = e})

\* C19: a level-2 open of a file whose count field is negative fails
\* without allocating and without reading offsets, and after a level-2
\* open that returned 0 offset_num >= 0.
C19_NoNegativeCount ==
    \A m \in Maps :
        IsV2(m) =>
            /\ (/\ written[m].layout = "plain" /\ written[m].count < 0
                /\ VersionLE(written[m].w, Supported)
                => /\ last.ret = -1
                   /\ ~Logged("G_malloc")
                   /\ Count("fread_I") <= 1)
            /\ (last.ret = 0 => Map[m].offset_num >= 0)

\* C20: after a level-1 open, failed or not, the data-source field of no
\* session holds a handle that OGR_DS_Destroy has released.
C20_NoReleasedHandleKept ==
    last.op = "V1_open_old_ogr" =>
        \A m \in Maps :
            Map[m].ds = NULL \/ Deref(Map[m].ds) \notin dsReleased

====
